---- MODULE Spec2Model ----
(***************************************************************************)
(* A model of the sliding-window kline cache and the buying-volume ranking *)
(* of src/rank_maintainer.py (classes KLine, KLines, RankMaintainer).      *)
(*                                                                         *)
(* Python floats are modelled as exact rationals (reduced fractions), so   *)
(* a mean is sum/window_size exactly.  Times are small integers.  A KLine  *)
(* carries the seven fields the window logic reads; the four price fields  *)
(* and ignore_param are never read by it and are left out.                 *)
(***************************************************************************)
EXTENDS Integers, Sequences, FiniteSets, TLC

VARIABLES
  kl,                        \* a KLines object exercised on its own (SpecKLines)
  max_klines_num,            \* RankMaintainer.max_klines_num
  trading_pair_names,        \* RankMaintainer.cache_content["trading_pair_names"]
  cache_file,                \* the trading_pair_names in the file at cache_config_path
  pair_name_to_klines_dict,  \* RankMaintainer.pair_name_to_klines_dict: pair name -> KLines
  source,                    \* the bars the exchange holds for each pair, oldest first
  call                       \* the most recent call: its name, arguments and outcome

vars == <<kl, max_klines_num, trading_pair_names, cache_file, pair_name_to_klines_dict,
          source, call>>

----------------------------------------------------------------------------
(* Bounds of the model *)

\* largest max_klines_num (the limit of the backfill) a KLines on its own is built with
MaxKlinesNum == 3

\* times (start_time, end_time) range over 0..MaxTime
MaxTime == 2

Times == 0..MaxTime

----------------------------------------------------------------------------
(* Python values *)

Abs(x) == IF x < 0 THEN -x ELSE x

RECURSIVE Gcd(_, _)
Gcd(a, b) == IF b = 0 THEN a ELSE Gcd(b, a % b)

\* the exact value n/d (d # 0) as a reduced fraction with a positive denominator
Frac(n, d) ==
  LET g == Gcd(Abs(n), Abs(d))
      s == IF d < 0 THEN -1 ELSE 1
  IN  [num |-> (s * n) \div g, den |-> (s * d) \div g]

\* outcomes of a call: a returned value or a raised exception
Return(v) == [raised |-> "none", value |-> v]
Raise(e) == [raised |-> e, value |-> "none"]

\* Python's "-", "/" and "<" on floats; a zero divisor raises ZeroDivisionError
FracSub(a, b) == Frac(a.num * b.den - b.num * a.den, a.den * b.den)
FracDiv(a, b) ==
  IF b.num = 0 THEN Raise("ZeroDivisionError") ELSE Return(Frac(a.num * b.den, a.den * b.num))
FracLess(a, b) == a.num * b.den < b.num * a.den
Zero == Frac(0, 1)

\* Python's list[i]: a negative i counts from the end
InRange(list, i) == -Len(list) <= i /\ i < Len(list)
Item(list, i) == IF i >= 0 THEN list[i + 1] ELSE list[Len(list) + i + 1]

----------------------------------------------------------------------------
(* class KLine *)

\* the traded quantities of one bar
Payloads ==
  { [turn_over |-> 0,  volume |-> 0,  transaction_num |-> 0, buying_turn_over |-> 0,  buying_volume |-> 0],
    [turn_over |-> 30, volume |-> 20, transaction_num |-> 2, buying_turn_over |-> 15, buying_volume |-> 10],
    [turn_over |-> 90, volume |-> 50, transaction_num |-> 5, buying_turn_over |-> 70, buying_volume |-> 40] }

KLine(s, e, p) ==
  [start_time |-> s, end_time |-> e,
   turn_over |-> p.turn_over, volume |-> p.volume, transaction_num |-> p.transaction_num,
   buying_turn_over |-> p.buying_turn_over, buying_volume |-> p.buying_volume]

\* every bar a caller can hand to update_latest_klines
AnyKLine == { KLine(s, e, p) : s \in Times, e \in Times, p \in Payloads }

----------------------------------------------------------------------------
(* class KLines *)

KLines(klines_list) == [klines_list |-> klines_list, klines_num |-> Len(klines_list)]

Last(list) == list[Len(list)]

\* update_latest_klines with "<" for "<=" on end_time
update_strict_end_time(self, kline) ==
  LET list == self.klines_list IN
  IF Len(list) = 0
    THEN [self |-> self, out |-> Raise("IndexError")]
  ELSE IF Last(list).end_time < kline.end_time /\ Last(list).start_time = kline.start_time
    THEN [self |-> [self EXCEPT !.klines_list = [list EXCEPT ![Len(list)] = kline]],
          out |-> Return(TRUE)]
  ELSE IF Last(list).end_time < kline.end_time /\ Last(list).start_time < kline.start_time
    THEN [self |-> [self EXCEPT !.klines_list = Append(Tail(list), kline)],
          out |-> Return(TRUE)]
  ELSE [self |-> self, out |-> Return(FALSE)]

\* update_latest_klines with pop() for pop(0): the newest bar is evicted
update_pop_newest(self, kline) ==
  LET list == self.klines_list IN
  IF Len(list) = 0
    THEN [self |-> self, out |-> Raise("IndexError")]
  ELSE IF Last(list).end_time <= kline.end_time /\ Last(list).start_time = kline.start_time
    THEN [self |-> [self EXCEPT !.klines_list = [list EXCEPT ![Len(list)] = kline]],
          out |-> Return(TRUE)]
  ELSE IF Last(list).end_time <= kline.end_time /\ Last(list).start_time < kline.start_time
    THEN [self |-> [self EXCEPT !.klines_list = Append(SubSeq(list, 1, Len(list) - 1), kline)],
          out |-> Return(TRUE)]
  ELSE [self |-> self, out |-> Return(FALSE)]

\* update_latest_klines with the two branches tested in the other order and "<=" on start_time
update_advance_first(self, kline) ==
  LET list == self.klines_list IN
  IF Len(list) = 0
    THEN [self |-> self, out |-> Raise("IndexError")]
  ELSE IF Last(list).end_time <= kline.end_time /\ Last(list).start_time <= kline.start_time
    THEN [self |-> [self EXCEPT !.klines_list = Append(Tail(list), kline)],
          out |-> Return(TRUE)]
  ELSE IF Last(list).end_time <= kline.end_time /\ Last(list).start_time = kline.start_time
    THEN [self |-> [self EXCEPT !.klines_list = [list EXCEPT ![Len(list)] = kline]],
          out |-> Return(TRUE)]
  ELSE [self |-> self, out |-> Return(FALSE)]

\* update_latest_klines whose revision branch appends the bar instead of replacing
update_appends_revision(self, kline) ==
  LET list == self.klines_list IN
  IF Len(list) = 0
    THEN [self |-> self, out |-> Raise("IndexError")]
  ELSE IF Last(list).end_time <= kline.end_time /\ Last(list).start_time = kline.start_time
    THEN [self |-> [self EXCEPT !.klines_list = Append(list, kline)],
          out |-> Return(TRUE)]
  ELSE IF Last(list).end_time <= kline.end_time /\ Last(list).start_time < kline.start_time
    THEN [self |-> [self EXCEPT !.klines_list = Append(Tail(list), kline)],
          out |-> Return(TRUE)]
  ELSE [self |-> self, out |-> Return(FALSE)]

\* update_latest_klines without the pop(0) of the advance branch
update_no_eviction(self, kline) ==
  LET list == self.klines_list IN
  IF Len(list) = 0
    THEN [self |-> self, out |-> Raise("IndexError")]
  ELSE IF Last(list).end_time <= kline.end_time /\ Last(list).start_time = kline.start_time
    THEN [self |-> [self EXCEPT !.klines_list = [list EXCEPT ![Len(list)] = kline]],
          out |-> Return(TRUE)]
  ELSE IF Last(list).end_time <= kline.end_time /\ Last(list).start_time < kline.start_time
    THEN [self |-> [self EXCEPT !.klines_list = Append(list, kline)],
          out |-> Return(TRUE)]
  ELSE [self |-> self, out |-> Return(FALSE)]

\* KLines.update_latest_klines: the object after the call and the call's outcome
update_latest_klines(self, kline) ==
  LET list == self.klines_list IN
  IF Len(list) = 0
    THEN [self |-> self, out |-> Raise("IndexError")]
  ELSE IF Last(list).end_time <= kline.end_time /\ Last(list).start_time = kline.start_time
    THEN [self |-> [self EXCEPT !.klines_list = [list EXCEPT ![Len(list)] = kline]],
          out |-> Return(TRUE)]
  ELSE IF Last(list).end_time <= kline.end_time /\ Last(list).start_time < kline.start_time
    THEN [self |-> [self EXCEPT !.klines_list = Append(Tail(list), kline)],
          out |-> Return(TRUE)]
  ELSE [self |-> self, out |-> Return(FALSE)]

\* the indexes range(start, stop) visits
Range(start, stop) == { i \in start..(stop - 1) : TRUE }

RECURSIVE SumRange(_, _, _, _)
\* the loop of calculate_average_data_by_given_window: list[i][field] summed for i in range(i, stop)
SumRange(list, i, stop, field) ==
  IF i >= stop THEN 0 ELSE Item(list, i)[field] + SumRange(list, i + 1, stop, field)

AverageFields == {"turn_over", "volume", "transaction_num", "buying_turn_over", "buying_volume"}

\* the three assertions that open calculate_average_data_by_given_window
average_preconditions(self, start_index, window_size) ==
  /\ Abs(start_index) < self.klines_num
  /\ Abs(window_size) <= self.klines_num
  /\ Abs(start_index + window_size) <= self.klines_num

\* KLines.calculate_average_data_by_given_window: the call's outcome
calculate_average_data_by_given_window(self, start_index, window_size) ==
  LET list == self.klines_list
      stop == start_index + window_size
      sum(field) == SumRange(list, start_index, stop, field)
  IN
  IF ~average_preconditions(self, start_index, window_size)
    THEN Raise("AssertionError")
  ELSE IF \E i \in Range(start_index, stop) : ~InRange(list, i)
    THEN Raise("IndexError")
  ELSE IF window_size = 0
    THEN Raise("ZeroDivisionError")
  ELSE Return([turn_over |-> Frac(sum("turn_over"), window_size),
               volume |-> Frac(sum("volume"), window_size),
               transaction_num |-> Frac(sum("transaction_num"), window_size),
               buying_turn_over |-> Frac(sum("buying_turn_over"), window_size),
               buying_volume |-> Frac(sum("buying_volume"), window_size),
               start_index |-> start_index,
               end_index |-> start_index + window_size - 1])

----------------------------------------------------------------------------
(* The bar source (client.klines), as far as a KLines object on its own needs it *)

RECURSIVE StrictlyIncreasing(_)
StrictlyIncreasing(list) ==
  \/ Len(list) <= 1
  \/ /\ list[1].start_time < list[2].start_time
     /\ StrictlyIncreasing(Tail(list))

\* the sequences of at most n elements of S
SeqUpTo(S, n) == UNION { [1..k -> S] : k \in 0..n }

\* a closed bar of the source: the interval that starts at s ends at s
SourceKLines == { KLine(s, s, p) : s \in Times, p \in Payloads }

\* what client.klines(symbol, interval, limit) can answer: at most limit bars, oldest first
Backfills(limit) == { r \in SeqUpTo(SourceKLines, limit) : StrictlyIncreasing(r) }

----------------------------------------------------------------------------
(* A KLines object on its own: built from a backfill, then updated and queried *)

NoCall == [op |-> "none"]

IndexArgs == (-MaxKlinesNum)..MaxKlinesNum

\* the RankMaintainer's own state plays no part in SpecKLines
NoMaintainer ==
  /\ trading_pair_names = <<>>
  /\ cache_file = <<>>
  /\ pair_name_to_klines_dict = <<>>
  /\ source = <<>>

InitKLines ==
  /\ max_klines_num \in 1..MaxKlinesNum
  /\ kl \in { KLines(r) : r \in Backfills(max_klines_num) }
  /\ call = NoCall
  /\ NoMaintainer

CallUpdate ==
  \E kline \in AnyKLine :
    LET r == update_latest_klines(kl, kline) IN
    /\ kl' = r.self
    /\ call' = [op |-> "update_latest_klines", kline |-> kline, before |-> kl, out |-> r.out]
    /\ UNCHANGED <<max_klines_num, trading_pair_names, cache_file,
                 pair_name_to_klines_dict, source>>

CallAverage ==
  \E start_index \in IndexArgs, window_size \in IndexArgs :
    /\ call' = [op |-> "calculate_average_data_by_given_window",
                start_index |-> start_index, window_size |-> window_size, before |-> kl,
                out |-> calculate_average_data_by_given_window(kl, start_index, window_size)]
    /\ UNCHANGED <<kl, max_klines_num, trading_pair_names, cache_file,
                 pair_name_to_klines_dict, source>>

NextKLines == CallUpdate \/ CallAverage

SpecKLines == InitKLines /\ [][NextKLines]_vars

----------------------------------------------------------------------------
(* Claims about KLines.update_latest_klines (checked under SpecKLines) *)

Returned(out, v) == out.raised = "none" /\ out.value = v

\* the last call was update_latest_klines on a window that has a last bar
Updated == call.op = "update_latest_klines" /\ Len(call.before.klines_list) > 0

LastBefore == Last(call.before.klines_list)

\* C1: update_latest_klines rejects a bar exactly when its end_time is below the
\* last bar's end_time or its start_time is below the last bar's start_time; a
\* rejected call returns False, raises nothing and leaves the window as it was.
C1_RejectExactly ==
  Updated =>
    LET stale == \/ call.kline.end_time < LastBefore.end_time
                 \/ call.kline.start_time < LastBefore.start_time
    IN  /\ call.out.raised = "none"
        /\ Returned(call.out, FALSE) <=> stale
        /\ call.kline.start_time < LastBefore.start_time => Returned(call.out, FALSE)
        /\ Returned(call.out, FALSE) => kl = call.before

\* a bar that starts before the last bar, with a later end_time, was rejected
C1_Witness ==
  /\ Updated
  /\ Len(call.before.klines_list) >= 2
  /\ call.kline.start_time < LastBefore.start_time
  /\ call.kline.end_time > LastBefore.end_time
  /\ Returned(call.out, FALSE)
  /\ kl = call.before

\* the last call was an update with a bar that opens a later interval
Advanced ==
  /\ Updated
  /\ call.kline.end_time >= LastBefore.end_time
  /\ call.kline.start_time > LastBefore.start_time

\* C2: an advancing bar is accepted; the window keeps its length, loses its oldest
\* bar, keeps the other bars in order one index lower, and ends with the new bar.
C2_Advance ==
  Advanced =>
    LET old == call.before.klines_list
        new == kl.klines_list
        n == Len(old)
    IN  /\ Returned(call.out, TRUE)
        /\ Len(new) = n
        /\ \A i \in 1..(n - 1) : new[i] = old[i + 1]
        /\ new[n] = call.kline
        /\ \A i \in 1..n : new[i] # old[1]

C2_Witness ==
  /\ Advanced
  /\ Len(call.before.klines_list) >= 2
  /\ kl.klines_list = Append(Tail(call.before.klines_list), call.kline)

\* the last call was an update with a bar of the last bar's interval
Revised ==
  /\ Updated
  /\ call.kline.start_time = LastBefore.start_time
  /\ call.kline.end_time >= LastBefore.end_time

\* C3: a bar with the last bar's start_time and an end_time not below it is accepted
\* by replacing the last bar only; and an accepted bar applied a second time is
\* accepted again and leaves the window as the first application left it.
C3_RevisionIdempotent ==
  /\ Revised =>
       /\ Returned(call.out, TRUE)
       /\ kl.klines_list =
            [call.before.klines_list EXCEPT ![Len(call.before.klines_list)] = call.kline]
       /\ kl.klines_num = call.before.klines_num
  /\ (Updated /\ Returned(call.out, TRUE)) =>
       /\ update_latest_klines(kl, call.kline).self = kl
       /\ Returned(update_latest_klines(kl, call.kline).out, TRUE)

\* a revision, with a later end_time, of a window of several bars
C3_Witness ==
  /\ Revised
  /\ Len(call.before.klines_list) >= 2
  /\ call.kline.end_time > LastBefore.end_time
  /\ Last(kl.klines_list) = call.kline
  /\ kl.klines_list[1] = call.before.klines_list[1]

\* C4: a window built from a backfill with strictly increasing start_time stays
\* strictly increasing in start_time, and no longer than max_klines_num, under
\* any sequence of updates.
C4_Ordered ==
  /\ StrictlyIncreasing(kl.klines_list)
  /\ Len(kl.klines_list) <= max_klines_num

\* a full window that has advanced, after a rejected update
C4_Witness ==
  /\ Updated
  /\ Returned(call.out, FALSE)
  /\ Len(kl.klines_list) = max_klines_num
  /\ max_klines_num >= 2
  /\ \E i \in 1..Len(kl.klines_list) : kl.klines_list[i].end_time # kl.klines_list[i].start_time

----------------------------------------------------------------------------
(* Claims about KLines.calculate_average_data_by_given_window (SpecKLines) *)

Averaged == call.op = "calculate_average_data_by_given_window"

RECURSIVE SumOfBars(_, _, _, _)
\* the sum of a field over the bars at positions lo..hi (counted from 1) of a list
SumOfBars(list, lo, hi, field) ==
  IF lo > hi THEN 0 ELSE list[lo][field] + SumOfBars(list, lo + 1, hi, field)

\* the position, counted from 0, that a start_index addresses in a list of n bars
Resolved(start_index, n) == IF start_index < 0 THEN n + start_index ELSE start_index

\* C6: for every (start_index, window_size) the preconditions accept, the call
\* returns the arithmetic mean of each field over the window_size contiguous bars
\* at resolved positions start .. start + window_size - 1, and over no other bar.
C6_ContiguousMean ==
  (/\ Averaged
   /\ average_preconditions(call.before, call.start_index, call.window_size)
   /\ call.window_size >= 1) =>
    LET list == call.before.klines_list
        start == Resolved(call.start_index, Len(list))
    IN  /\ call.out.raised = "none"
        /\ start + call.window_size <= Len(list)
        /\ \A f \in AverageFields :
             call.out.value[f] =
               Frac(SumOfBars(list, start + 1, start + call.window_size, f), call.window_size)

\* C7: a call with window_size = 0 is refused by the preconditions (the range
\* error of the assertions) and never ends in a division by zero.
C7_ZeroWindowRefused ==
  (Averaged /\ call.window_size = 0) => call.out.raised = "AssertionError"

\* C20: the average returned for a negative start_index s on a window of n bars is
\* tagged with the resolved indexes n + s and n + s + window_size - 1, both
\* non-negative positions of the window, window_size apart.
C20_ResolvedIndexes ==
  (Averaged /\ call.out.raised = "none" /\ call.start_index < 0 /\ call.window_size >= 1) =>
    LET n == Len(call.before.klines_list) IN
    /\ call.out.value.start_index = n + call.start_index
    /\ call.out.value.end_index = n + call.start_index + call.window_size - 1
    /\ call.out.value.start_index >= 0
    /\ call.out.value.end_index >= 0
    /\ call.out.value.end_index - call.out.value.start_index + 1 = call.window_size

----------------------------------------------------------------------------
(* The exchange: the bars it holds for each pair *)

Symbols == {"AUSDT", "BUSDT"}

\* the exchange is followed until it holds MaxBars bars of a pair
MaxBars == 3

\* the last n elements of a list (the whole list when it is shorter)
LastN(list, n) == IF Len(list) <= n THEN list ELSE SubSeq(list, Len(list) - n + 1, Len(list))

\* client.klines(symbol, interval, limit=limit): the most recent bars, oldest first
klines(symbol, limit) == LastN(source[symbol], limit)

\* a new interval opens: the exchange holds one more bar for the pair
SourceAdvance(symbol) ==
  /\ Len(source[symbol]) < MaxBars
  /\ \E p \in Payloads :
       source' = [source EXCEPT ![symbol] =
                    Append(@, KLine(Len(source[symbol]), Len(source[symbol]), p))]
  /\ call' = NoCall
  /\ UNCHANGED <<kl, max_klines_num, trading_pair_names, cache_file, pair_name_to_klines_dict>>

\* trades arrive in the open interval: the quantities of the newest bar grow
SourceRevise(symbol) ==
  /\ Len(source[symbol]) > 0
  /\ \E p \in Payloads :
       /\ p.volume > Last(source[symbol]).volume
       /\ source' = [source EXCEPT ![symbol] =
                       [@ EXCEPT ![Len(@)] = KLine(@.start_time, @.end_time, p)]]
  /\ call' = NoCall
  /\ UNCHANGED <<kl, max_klines_num, trading_pair_names, cache_file, pair_name_to_klines_dict>>

----------------------------------------------------------------------------
(* class RankMaintainer *)

\* largest max_klines_num the RankMaintainer is constructed with
RankKlinesNum == 2

\* dict[key] = value
Put(dict, key, value) ==
  [k \in DOMAIN dict \cup {key} |-> IF k = key THEN value ELSE dict[k]]

\* RankMaintainer.convert_klines_list_to_klines: a KLine built from each raw bar
convert_klines_list_to_klines(raw) ==
  KLines([i \in 1..Len(raw) |-> KLine(raw[i].start_time, raw[i].end_time, raw[i])])

\* RankMaintainer.get_latest_kline: klines(limit=1)[0]
get_latest_kline(symbol) ==
  LET raw == klines(symbol, 1) IN
  IF Len(raw) = 0 THEN Raise("IndexError")
  ELSE Return(KLine(raw[1].start_time, raw[1].end_time, raw[1]))

\* a row of a response that ends before its quantities: kline[1] is out of range
ShortRow(row) == [start_time |-> row.start_time]

\* convert_klines_list_to_klines on the rows of a response, some of which may be
\* short: the KLines built, or the error of the first kline[...] out of range
convert_rows(raw) ==
  IF \E i \in 1..Len(raw) : "buying_volume" \notin DOMAIN raw[i]
    THEN Raise("IndexError")
    ELSE Return(convert_klines_list_to_klines(raw))

\* get_current_trading_klines that stores the bars converted so far, row by row
get_current_stores_as_it_converts(dict, symbol, response) ==
  IF symbol \in DOMAIN dict
    THEN [dict |-> dict, out |-> Return(dict[symbol]), fetches |-> 0]
  ELSE IF response.raised # "none"
    THEN [dict |-> Put(dict, symbol, KLines(<<>>)), out |-> response, fetches |-> 1]
  ELSE LET good == { n \in 0..Len(response.value) :
                       convert_rows(SubSeq(response.value, 1, n)).raised = "none" }
           n == CHOOSE n \in good : \A m \in good : m <= n
           current_trading_klines == convert_rows(SubSeq(response.value, 1, n)).value
       IN  [dict |-> Put(dict, symbol, current_trading_klines),
            out |-> IF n = Len(response.value) THEN Return(current_trading_klines)
                                               ELSE convert_rows(response.value),
            fetches |-> 1]

\* RankMaintainer.get_current_trading_klines when client.klines answers with
\* response (rows, or an exception): the dict after the call, the outcome and the
\* number of fetches made
get_current_trading_klines_on(dict, symbol, response) ==
  IF symbol \in DOMAIN dict
    THEN [dict |-> dict, out |-> Return(dict[symbol]), fetches |-> 0]
  ELSE IF response.raised # "none"
    THEN [dict |-> dict, out |-> response, fetches |-> 1]
  ELSE LET current_trading_klines == convert_rows(response.value)
       IN  IF current_trading_klines.raised # "none"
             THEN [dict |-> dict, out |-> current_trading_klines, fetches |-> 1]
             ELSE [dict |-> Put(dict, symbol, current_trading_klines.value),
                   out |-> current_trading_klines, fetches |-> 1]

\* get_current_trading_klines without the test for a cached window
get_current_always_fetches(dict, symbol) ==
  LET current_trading_klines ==
        convert_klines_list_to_klines(klines(symbol, max_klines_num))
  IN  [dict |-> Put(dict, symbol, current_trading_klines),
       out |-> Return(current_trading_klines), fetches |-> 1]

\* RankMaintainer.get_current_trading_klines over the exchange as it is
get_current_trading_klines(dict, symbol) ==
  get_current_trading_klines_on(dict, symbol, Return(klines(symbol, max_klines_num)))

\* update_klines that backfills the window of a pair that has none
update_klines_backfills(dict, symbol) ==
  LET latest_kline == get_latest_kline(symbol)
      got == get_current_trading_klines(dict, symbol)
  IN
  IF latest_kline.raised # "none" THEN [dict |-> dict, out |-> latest_kline, fetches |-> 1]
  ELSE LET r == update_latest_klines(got.dict[symbol], latest_kline.value)
       IN  [dict |-> Put(got.dict, symbol, r.self), out |-> r.out,
            fetches |-> 1 + got.fetches]

\* RankMaintainer.update_klines: the dict after the call and the outcome
update_klines(dict, symbol) ==
  LET latest_kline == get_latest_kline(symbol) IN
  IF latest_kline.raised # "none" THEN [dict |-> dict, out |-> latest_kline, fetches |-> 1]
  ELSE IF symbol \notin DOMAIN dict
    THEN [dict |-> dict, out |-> Raise("KeyError"), fetches |-> 1]
  ELSE LET r == update_latest_klines(dict[symbol], latest_kline.value)
       IN  [dict |-> Put(dict, symbol, r.self), out |-> r.out, fetches |-> 1]

\* buying_volume_diff_ratio with the past window taken from the first bar on
ratio_past_from_oldest(current_trading_klines, past, recent) ==
  LET past_avg_data ==
        calculate_average_data_by_given_window(current_trading_klines, 0, past)
      recent_avg_data ==
        calculate_average_data_by_given_window(current_trading_klines,
                                               max_klines_num - recent, recent)
  IN
  IF past_avg_data.raised # "none" THEN past_avg_data
  ELSE IF recent_avg_data.raised # "none" THEN recent_avg_data
  ELSE LET buying_volume_diff ==
             FracSub(recent_avg_data.value.buying_volume, past_avg_data.value.buying_volume)
       IN  IF past_avg_data.value.buying_volume = Zero
             THEN Return(Zero)
             ELSE FracDiv(buying_volume_diff, past_avg_data.value.buying_volume)

\* buying_volume_diff_ratio without the test for a zero past average
ratio_without_zero_test(current_trading_klines, past, recent) ==
  LET past_avg_data ==
        calculate_average_data_by_given_window(current_trading_klines,
                                               max_klines_num - past, past)
      recent_avg_data ==
        calculate_average_data_by_given_window(current_trading_klines,
                                               max_klines_num - recent, recent)
  IN
  IF past_avg_data.raised # "none" THEN past_avg_data
  ELSE IF recent_avg_data.raised # "none" THEN recent_avg_data
  ELSE FracDiv(FracSub(recent_avg_data.value.buying_volume,
                       past_avg_data.value.buying_volume),
               past_avg_data.value.buying_volume)

\* the ratio of one pair, as both ranking methods compute it from the pair's KLines
buying_volume_diff_ratio(current_trading_klines, past, recent) ==
  LET past_avg_data ==
        calculate_average_data_by_given_window(current_trading_klines,
                                               max_klines_num - past, past)
      recent_avg_data ==
        calculate_average_data_by_given_window(current_trading_klines,
                                               max_klines_num - recent, recent)
  IN
  IF past_avg_data.raised # "none" THEN past_avg_data
  ELSE IF recent_avg_data.raised # "none" THEN recent_avg_data
  ELSE LET buying_volume_diff ==
             FracSub(recent_avg_data.value.buying_volume, past_avg_data.value.buying_volume)
       IN  IF past_avg_data.value.buying_volume = Zero
             THEN Return(Zero)
             ELSE FracDiv(buying_volume_diff, past_avg_data.value.buying_volume)

\* InsertByRatio that puts the entry before the entries of equal ratio
insert_before_equal(list, entry) ==
  LET k == Cardinality({ i \in 1..Len(list) : FracLess(entry[2], list[i][2]) })
  IN  SubSeq(list, 1, k) \o <<entry>> \o SubSeq(list, k + 1, Len(list))

\* one more entry put in its place in a list sorted by ratio, highest first:
\* after every entry whose ratio is not lower
InsertByRatio(list, entry) ==
  LET k == Cardinality({ i \in 1..Len(list) : ~FracLess(list[i][2], entry[2]) })
  IN  SubSeq(list, 1, k) \o <<entry>> \o SubSeq(list, k + 1, Len(list))

RECURSIVE SortedFrom(_, _)
SortedFrom(done, rest) ==
  IF rest = <<>> THEN done ELSE SortedFrom(InsertByRatio(done, Head(rest)), Tail(rest))

\* sorted(volume_diff_ratio_list, key=lambda x: x[1], reverse=True): a stable sort
sorted_by_ratio(volume_diff_ratio_list) == SortedFrom(<<>>, volume_diff_ratio_list)

RECURSIVE init_rank_loop(_, _, _, _, _)
\* the loop of get_init_buying_volume_diff_ratio_rank over the pair names left
init_rank_loop(names, dict, volume_diff_ratio_list, past, recent) ==
  IF names = <<>>
    THEN [dict |-> dict, out |-> Return(volume_diff_ratio_list), fetches |-> 0]
  ELSE LET pair_name == Head(names)
           got == get_current_trading_klines(dict, pair_name)
           ratio == buying_volume_diff_ratio(got.out.value, past, recent)
           rest == init_rank_loop(Tail(names), got.dict,
                                  Append(volume_diff_ratio_list, <<pair_name, ratio.value>>),
                                  past, recent)
       IN  IF ratio.raised # "none"
             THEN [dict |-> got.dict, out |-> ratio, fetches |-> got.fetches]
             ELSE [dict |-> rest.dict, out |-> rest.out,
                   fetches |-> got.fetches + rest.fetches]

\* get_init_buying_volume_diff_ratio_rank with its two assertions made after the loop
init_rank_asserts_late(past, recent) ==
  LET done == init_rank_loop(trading_pair_names, pair_name_to_klines_dict, <<>>,
                             past, recent)
  IN  IF past > max_klines_num \/ recent > max_klines_num
        THEN [dict |-> done.dict, out |-> Raise("AssertionError"),
              fetches |-> done.fetches]
      ELSE IF done.out.raised # "none" THEN done
      ELSE [dict |-> done.dict, out |-> Return(sorted_by_ratio(done.out.value)),
            fetches |-> done.fetches]

\* RankMaintainer.get_init_buying_volume_diff_ratio_rank
get_init_buying_volume_diff_ratio_rank(past, recent) ==
  IF past > max_klines_num \/ recent > max_klines_num
    THEN [dict |-> pair_name_to_klines_dict, out |-> Raise("AssertionError"),
          fetches |-> 0]
  ELSE LET done == init_rank_loop(trading_pair_names, pair_name_to_klines_dict, <<>>,
                                  past, recent)
       IN  IF done.out.raised # "none" THEN done
           ELSE [dict |-> done.dict, out |-> Return(sorted_by_ratio(done.out.value)),
                 fetches |-> done.fetches]

RECURSIVE update_rank_loop(_, _, _, _, _)
\* the loop of update_buying_volume_diff_ratio_rank over the pair names left
update_rank_loop(names, dict, volume_diff_ratio_list, past, recent) ==
  IF names = <<>>
    THEN [dict |-> dict, out |-> Return(volume_diff_ratio_list), fetches |-> 0]
  ELSE LET pair_name == Head(names)
           updated == update_klines(dict, pair_name)
           ratio == buying_volume_diff_ratio(updated.dict[pair_name], past, recent)
           rest == update_rank_loop(Tail(names), updated.dict,
                                    Append(volume_diff_ratio_list, <<pair_name, ratio.value>>),
                                    past, recent)
       IN  IF updated.out.raised # "none" THEN updated
           ELSE IF ratio.raised # "none"
             THEN [dict |-> updated.dict, out |-> ratio, fetches |-> updated.fetches]
           ELSE [dict |-> rest.dict, out |-> rest.out,
                 fetches |-> updated.fetches + rest.fetches]

\* RankMaintainer.update_buying_volume_diff_ratio_rank
update_buying_volume_diff_ratio_rank(past, recent) ==
  IF past > max_klines_num \/ recent > max_klines_num
    THEN [dict |-> pair_name_to_klines_dict, out |-> Raise("AssertionError"),
          fetches |-> 0]
  ELSE LET done == update_rank_loop(trading_pair_names, pair_name_to_klines_dict, <<>>,
                                    past, recent)
       IN  IF done.out.raised # "none" THEN done
           ELSE [dict |-> done.dict, out |-> Return(sorted_by_ratio(done.out.value)),
                 fetches |-> done.fetches]

----------------------------------------------------------------------------
(* A RankMaintainer in use: calls of its methods while the exchange moves on *)

\* the window sizes a ranking is asked for
WindowSizes == 1..(max_klines_num + 1)

Tracked == { trading_pair_names[i] : i \in 1..Len(trading_pair_names) }

Init ==
  /\ kl = KLines(<<>>)
  /\ max_klines_num \in 1..RankKlinesNum
  /\ trading_pair_names = <<"AUSDT">>
  /\ cache_file = trading_pair_names
  /\ pair_name_to_klines_dict = <<>>
  /\ source = [symbol \in Symbols |-> <<>>]
  /\ call = NoCall

CallGetCurrent(symbol) ==
  LET r == get_current_trading_klines(pair_name_to_klines_dict, symbol) IN
  /\ pair_name_to_klines_dict' = r.dict
  /\ call' = [op |-> "get_current_trading_klines", symbol |-> symbol,
              out |-> r.out, fetches |-> r.fetches]
  /\ UNCHANGED <<kl, max_klines_num, trading_pair_names, cache_file, source>>

CallUpdateKlines(symbol) ==
  LET r == update_klines(pair_name_to_klines_dict, symbol) IN
  /\ pair_name_to_klines_dict' = r.dict
  /\ call' = [op |-> "update_klines", symbol |-> symbol, out |-> r.out]
  /\ UNCHANGED <<kl, max_klines_num, trading_pair_names, cache_file, source>>

CallInitRank(past, recent) ==
  LET r == get_init_buying_volume_diff_ratio_rank(past, recent) IN
  /\ pair_name_to_klines_dict' = r.dict
  /\ call' = [op |-> "get_init_buying_volume_diff_ratio_rank",
              past |-> past, recent |-> recent, out |-> r.out]
  /\ UNCHANGED <<kl, max_klines_num, trading_pair_names, cache_file, source>>

CallUpdateRank(past, recent) ==
  LET r == update_buying_volume_diff_ratio_rank(past, recent) IN
  /\ pair_name_to_klines_dict' = r.dict
  /\ call' = [op |-> "update_buying_volume_diff_ratio_rank",
              past |-> past, recent |-> recent, out |-> r.out]
  /\ UNCHANGED <<kl, max_klines_num, trading_pair_names, cache_file, source>>

Next ==
  \/ \E symbol \in Tracked : SourceAdvance(symbol)
  \/ \E symbol \in Tracked : SourceRevise(symbol)
  \/ \E symbol \in Tracked : CallGetCurrent(symbol)
  \/ \E symbol \in Tracked : CallUpdateKlines(symbol)
  \/ \E past \in WindowSizes, recent \in WindowSizes : CallInitRank(past, recent)
  \/ \E past \in WindowSizes, recent \in WindowSizes : CallUpdateRank(past, recent)

Spec == Init /\ [][Next]_vars

----------------------------------------------------------------------------
(* The worked example of the ratio: a RankMaintainer with max_klines_num = 4 *)
(* over an exchange that holds four bars of the pair                       *)

\* four bars, each with some buying volume
ExampleHistories ==
  { [i \in 1..4 |-> KLine(i - 1, i - 1, p[i])] :
      p \in [1..4 -> { q \in Payloads : q.buying_volume > 0 }] }

InitExample ==
  /\ kl = KLines(<<>>)
  /\ max_klines_num = 4
  /\ trading_pair_names = <<"AUSDT">>
  /\ cache_file = trading_pair_names
  /\ pair_name_to_klines_dict = <<>>
  /\ \E r \in ExampleHistories : source = [symbol \in Symbols |-> IF symbol = "AUSDT" THEN r ELSE <<>>]
  /\ call = NoCall

NextExample ==
  \/ \E symbol \in Tracked : SourceRevise(symbol)
  \/ \E symbol \in Tracked : CallGetCurrent(symbol)
  \/ \E symbol \in Tracked : CallUpdateKlines(symbol)
  \/ \E past \in WindowSizes, recent \in WindowSizes : CallInitRank(past, recent)
  \/ \E past \in WindowSizes, recent \in WindowSizes : CallUpdateRank(past, recent)

SpecExample == InitExample /\ [][NextExample]_vars

----------------------------------------------------------------------------
(* Claims about the cached windows and the ratio (Spec, SpecExample) *)

RankOps == {"get_init_buying_volume_diff_ratio_rank", "update_buying_volume_diff_ratio_rank"}

\* the last call was a ranking pass
Ranked == call.op \in RankOps

\* the last call fetched bars of the pair and put them in the pair's window
Refreshed(symbol) ==
  \/ /\ call.op = "get_current_trading_klines"
     /\ call.symbol = symbol
     /\ call.fetches = 1
  \/ /\ call.op = "update_klines"
     /\ call.symbol = symbol
     /\ call.out.raised = "none"
  \/ /\ call.op = "update_buying_volume_diff_ratio_rank"
     /\ call.out.raised = "none"
     /\ symbol \in Tracked

\* C5: after a backfill and any refreshes, whatever the exchange did in between,
\* the cached window of a pair is the most recent max_klines_num bars the exchange
\* holds for the pair at the time of the last refresh.
C5_Fresh ==
  \A symbol \in DOMAIN pair_name_to_klines_dict :
    Refreshed(symbol) =>
      pair_name_to_klines_dict[symbol].klines_list = klines(symbol, max_klines_num)

\* the mean buying_volume of the last n bars of a list
MeanOfLast(list, n) ==
  Frac(SumOfBars(list, Len(list) - n + 1, Len(list), "buying_volume"), n)

\* (R - P) / P, and 0 when P is 0
RatioOfMeans(R, P) ==
  IF P.num = 0 THEN Zero ELSE Frac((R.num * P.den - P.num * R.den) * P.den, R.den * P.den * P.num)

\* the entry of a pair in a returned ranking is the ratio of the means of its window
EntryIsRatio(entry) ==
  LET list == pair_name_to_klines_dict[entry[1]].klines_list
  IN  entry[2] = RatioOfMeans(MeanOfLast(list, call.recent), MeanOfLast(list, call.past))

\* C8: for a cached window of any length L (a short backfill included) and window
\* sizes between 1 and L, the ranking operations compute (R - P) / P from the means
\* of the last recent and the last past bars of the window.
C8_RatioDefinition ==
  (/\ Ranked
   /\ \A symbol \in Tracked :
        /\ symbol \in DOMAIN pair_name_to_klines_dict
        /\ call.past \in 1..Len(pair_name_to_klines_dict[symbol].klines_list)
        /\ call.recent \in 1..Len(pair_name_to_klines_dict[symbol].klines_list)) =>
    /\ call.out.raised = "none"
    /\ Len(call.out.value) = Len(trading_pair_names)
    /\ \A i \in 1..Len(call.out.value) : EntryIsRatio(call.out.value[i])

RECURSIVE BuyingVolumes(_)
BuyingVolumes(list) ==
  IF list = <<>> THEN <<>> ELSE <<Head(list).buying_volume>> \o BuyingVolumes(Tail(list))

\* a ranking with past 3 and recent 1 was asked of the maintainer with max_klines_num = 4
\* whose window of the pair holds buying volumes 10, 10, 10, 40
ExampleRanked ==
  /\ Ranked
  /\ call.past = 3
  /\ call.recent = 1
  /\ max_klines_num = 4
  /\ "AUSDT" \in DOMAIN pair_name_to_klines_dict
  /\ BuyingVolumes(pair_name_to_klines_dict["AUSDT"].klines_list) = <<10, 10, 10, 40>>

\* the average the ranking takes of the example's window for a window size
ExampleAverage(size) ==
  calculate_average_data_by_given_window(pair_name_to_klines_dict["AUSDT"], 4 - size, size).value

\* C9 as stated: in the example the past average covers the first three bars (10),
\* the recent average the last bar (40), and the ratio returned is 3.
C9_ExampleAsStated ==
  ExampleRanked =>
    /\ ExampleAverage(3).buying_volume = Frac(10, 1)
    /\ ExampleAverage(3).start_index = 0
    /\ ExampleAverage(1).buying_volume = Frac(40, 1)
    /\ call.out.raised = "none"
    /\ call.out.value = << <<"AUSDT", Frac(3, 1)>> >>

\* C9, amended: in the example the past average covers the last three bars
\* (10, 10, 40: mean 20), the recent average the last bar (40), and the ratio
\* returned is (40 - 20) / 20 = 1.
C9_Example ==
  ExampleRanked =>
    /\ ExampleAverage(3).buying_volume = Frac(20, 1)
    /\ ExampleAverage(3).start_index = 1
    /\ ExampleAverage(3).end_index = 3
    /\ ExampleAverage(1).buying_volume = Frac(40, 1)
    /\ ExampleAverage(1).start_index = 3
    /\ call.out.raised = "none"
    /\ call.out.value = << <<"AUSDT", Frac(1, 1)>> >>

C9_Witness ==
  /\ ExampleRanked
  /\ call.op = "update_buying_volume_diff_ratio_rank"
  /\ call.out.raised = "none"
  /\ call.out.value = << <<"AUSDT", Frac(1, 1)>> >>

\* C10: a pair whose past-window average buying_volume is 0 is ranked with ratio 0
\* by both ranking operations, whatever its recent average, and no ranking ends in
\* a division by zero.
C10_ZeroPast ==
  Ranked =>
    /\ call.out.raised # "ZeroDivisionError"
    /\ call.out.raised = "none" =>
         \A i \in 1..Len(call.out.value) :
           LET list == pair_name_to_klines_dict[call.out.value[i][1]].klines_list IN
           MeanOfLast(list, call.past) = Zero => call.out.value[i][2] = Zero

\* a refresh pass ranked a pair whose past average is 0 and whose recent average is not
C10_Witness ==
  /\ call.op = "update_buying_volume_diff_ratio_rank"
  /\ call.out.raised = "none"
  /\ Len(call.out.value) = 1
  /\ LET list == pair_name_to_klines_dict[call.out.value[1][1]].klines_list IN
     /\ MeanOfLast(list, call.past) = Zero
     /\ MeanOfLast(list, call.recent) # Zero
     /\ call.out.value[1][2] = Zero

----------------------------------------------------------------------------
(* A RankMaintainer that tracks two pairs: the ranking passes over both    *)
(* while the exchange opens bars (SpecPairs) and may also answer from an   *)
(* endpoint that lags (SpecLag)                                            *)

\* the exchange is followed until it holds PairBars bars of each of the two pairs
PairBars == 2

\* a new interval opens for one of the two pairs, with some buying volume
PairAdvance(symbol) ==
  /\ Len(source[symbol]) < PairBars
  /\ \E p \in { q \in Payloads : q.buying_volume > 0 } :
       source' = [source EXCEPT ![symbol] =
                    Append(@, KLine(Len(source[symbol]), Len(source[symbol]), p))]
  /\ call' = NoCall
  /\ UNCHANGED <<kl, max_klines_num, trading_pair_names, cache_file, pair_name_to_klines_dict>>

\* the answers for a pair now come from an endpoint that has not seen the
\* newest bar yet: client.klines serves the bars up to the one before it
SourceLag(symbol) ==
  /\ Len(source[symbol]) > 1
  /\ source' = [source EXCEPT ![symbol] = SubSeq(@, 1, Len(@) - 1)]
  /\ call' = NoCall
  /\ UNCHANGED <<kl, max_klines_num, trading_pair_names, cache_file, pair_name_to_klines_dict>>

InitPairs ==
  /\ kl = KLines(<<>>)
  /\ max_klines_num = RankKlinesNum
  /\ trading_pair_names = <<"AUSDT", "BUSDT">>
  /\ cache_file = trading_pair_names
  /\ pair_name_to_klines_dict = <<>>
  /\ source = [symbol \in Symbols |-> <<>>]
  /\ call = NoCall

NextPairs ==
  \/ \E symbol \in Tracked : PairAdvance(symbol)
  \/ \E past \in WindowSizes, recent \in WindowSizes : CallInitRank(past, recent)
  \/ \E past \in WindowSizes, recent \in WindowSizes : CallUpdateRank(past, recent)

SpecPairs == InitPairs /\ [][NextPairs]_vars

\* the same, over an exchange whose answers may lag
NextLag ==
  \/ \E symbol \in Tracked : PairAdvance(symbol)
  \/ \E symbol \in Tracked : SourceLag(symbol)
  \/ \E past \in WindowSizes, recent \in WindowSizes : CallInitRank(past, recent)
  \/ \E past \in WindowSizes, recent \in WindowSizes : CallUpdateRank(past, recent)

SpecLag == InitPairs /\ [][NextLag]_vars

----------------------------------------------------------------------------
(* Claims about a ranking pass over two pairs (SpecPairs, SpecLag) *)

\* the place of a pair name in trading_pair_names
Position(symbol) ==
  CHOOSE i \in 1..Len(trading_pair_names) : trading_pair_names[i] = symbol

\* C11: the list a ranking method returns has one entry per tracked pair, is
\* sorted by ratio with no entry below a later one, and entries of equal ratio
\* stand in the order of their pairs in trading_pair_names.
C11_SortedStable ==
  (Ranked /\ call.out.raised = "none") =>
    LET v == call.out.value IN
    /\ Len(v) = Len(trading_pair_names)
    /\ { v[i][1] : i \in 1..Len(v) } = Tracked
    /\ \A i \in 1..Len(v) : \A j \in (i + 1)..Len(v) :
         /\ ~FracLess(v[i][2], v[j][2])
         /\ (~FracLess(v[j][2], v[i][2])) => Position(v[i][1]) < Position(v[j][1])

\* a ranking of the two pairs with equal ratios other than the 0 of an empty past
C11_Witness ==
  /\ Ranked /\ call.out.raised = "none"
  /\ Len(call.out.value) = 2
  /\ call.out.value[1][2] = call.out.value[2][2]
  /\ call.out.value[1][2] # Zero

\* the window a ranking pass finds or backfills for a pair
WindowOf(symbol) ==
  IF symbol \in DOMAIN pair_name_to_klines_dict
    THEN pair_name_to_klines_dict[symbol]
    ELSE convert_klines_list_to_klines(klines(symbol, max_klines_num))

\* the ratio of the pair can be computed from its window for the sizes of the call
Healthy(symbol) ==
  buying_volume_diff_ratio(WindowOf(symbol), call.past, call.recent).raised = "none"

\* C12: a ranking pass asked with admissible sizes completes whatever happens to
\* one pair, and its result has an entry for every pair whose ratio can be computed.
C12_OneFailureSkipped ==
  (/\ Ranked
   /\ call.past <= max_klines_num /\ call.recent <= max_klines_num
   /\ \E symbol \in Tracked : Healthy(symbol)) =>
    /\ call.out.raised = "none"
    /\ \A symbol \in Tracked :
         Healthy(symbol) => \E i \in 1..Len(call.out.value) : call.out.value[i][1] = symbol

\* the update of the pair's window with the bar the exchange serves is rejected
Rejected(symbol) ==
  /\ update_klines(pair_name_to_klines_dict, symbol).out.raised = "none"
  /\ update_klines(pair_name_to_klines_dict, symbol).out.value = FALSE

\* C13: the list update_buying_volume_diff_ratio_rank returns has no entry for a
\* pair whose update_klines was rejected in that pass.
C13_RejectedSkipped ==
  (call.op = "update_buying_volume_diff_ratio_rank" /\ call.out.raised = "none") =>
    \A i \in 1..Len(call.out.value) : ~Rejected(call.out.value[i][1])

----------------------------------------------------------------------------
(* A RankMaintainer whose client may fail: client.klines raises, or answers *)
(* with a row that is too short                                             *)

\* the exchange is followed until it holds FaultBars bars of the pair
FaultBars == 2

\* a new interval opens
FaultAdvance(symbol) == Len(source[symbol]) < FaultBars /\ SourceAdvance(symbol)

\* what client.klines(symbol, limit=max_klines_num) may answer: the bars, an
\* exception, or the bars with one row cut short
Responses(symbol) ==
  LET raw == klines(symbol, max_klines_num) IN
  {Return(raw), Raise("ClientError")}
    \cup { Return([raw EXCEPT ![i] = ShortRow(raw[i])]) : i \in 1..Len(raw) }

CallGetCurrentOn(symbol, response) ==
  LET r == get_current_trading_klines_on(pair_name_to_klines_dict, symbol, response) IN
  /\ pair_name_to_klines_dict' = r.dict
  /\ call' = [op |-> "get_current_trading_klines", symbol |-> symbol,
              out |-> r.out, fetches |-> r.fetches]
  /\ UNCHANGED <<kl, max_klines_num, trading_pair_names, cache_file, source>>

NextFaults ==
  \/ \E symbol \in Symbols : FaultAdvance(symbol)
  \/ \E symbol \in Symbols : \E response \in Responses(symbol) :
       CallGetCurrentOn(symbol, response)

SpecFaults == Init /\ [][NextFaults]_vars

\* C15: a get_current_trading_klines whose fetch or conversion fails hands the
\* error to its caller and leaves the window map as it was, with no entry for
\* the pair, so that the next call for the pair fetches again.
C15_FailureLeavesMap ==
  [][ (call'.op = "get_current_trading_klines" /\ call'.out.raised # "none") =>
        /\ call'.fetches = 1
        /\ pair_name_to_klines_dict' = pair_name_to_klines_dict
        /\ call'.symbol \notin DOMAIN pair_name_to_klines_dict'
        /\ \A response \in Responses(call'.symbol) :
             get_current_trading_klines_on(pair_name_to_klines_dict', call'.symbol,
                                           response).fetches = 1
    ]_vars

\* a conversion failed on the second row of a response while the map held a
\* window of the other pair
C15_Witness ==
  /\ call.op = "get_current_trading_klines"
  /\ call.out.raised = "IndexError"
  /\ Len(source[call.symbol]) = 2 /\ max_klines_num = 2
  /\ call.symbol \notin DOMAIN pair_name_to_klines_dict
  /\ DOMAIN pair_name_to_klines_dict # {}

----------------------------------------------------------------------------
(* RankMaintainer.get_need_trading_pair_set: the tracked pairs are resolved *)
(* against the listings of the spot and of the derivatives exchange         *)

\* the names a listing may carry
SpotNames == {"AUSDT", "BUSDT", "USDTA"}
PairNames == SpotNames \cup {""}

\* the characters of a name
Spelling(name) ==
  CASE name = "" -> <<>>
    [] name = "AUSDT" -> <<"A", "U", "S", "D", "T">>
    [] name = "BUSDT" -> <<"B", "U", "S", "D", "T">>
    [] name = "USDTA" -> <<"U", "S", "D", "T", "A">>

\* name[-4:] == 'USDT'
ends_in_USDT(name) == LastN(Spelling(name), 4) = <<"U", "S", "D", "T">>

\* name in list
InList(name, list) == \E i \in 1..Len(list) : list[i] = name

\* client.exchange_info()["symbols"]: every listed symbol with its status
SpotListings ==
  { { [symbol |-> name, status |-> f[name]] : name \in { n \in SpotNames : f[n] # "unlisted" } } :
      f \in [SpotNames -> {"TRADING", "BREAK", "unlisted"}] }

\* um_client.exchange_info()["symbols"]: the pair of every listed contract
UmListings == { { [pair |-> name] : name \in names } : names \in SUBSET PairNames }

\* the pair names to append, with names already tracked taken again
need_without_cache_test(names, pair_infos, um_pair_infos) ==
  LET pair_names ==
        { p.symbol : p \in { q \in pair_infos :
            q.symbol # "" /\ ends_in_USDT(q.symbol) /\ q.status = "TRADING" } }
      um_pair_names ==
        { p.pair : p \in { q \in um_pair_infos : q.pair # "" /\ ends_in_USDT(q.pair) } }
  IN  um_pair_names \cap pair_names

\* the pair names to append, whatever the status of the symbol
need_without_status_test(names, pair_infos, um_pair_infos) ==
  LET pair_names ==
        { p.symbol : p \in { q \in pair_infos :
            q.symbol # "" /\ ends_in_USDT(q.symbol) /\ ~InList(q.symbol, names) } }
      um_pair_names ==
        { p.pair : p \in { q \in um_pair_infos :
            q.pair # "" /\ ends_in_USDT(q.pair) /\ ~InList(q.pair, names) } }
  IN  um_pair_names \cap pair_names

\* um_pair_names & pair_names: the pair names to append
need_pair_names(names, pair_infos, um_pair_infos) ==
  LET pair_names ==
        { p.symbol : p \in { q \in pair_infos :
            /\ q.symbol # "" /\ ends_in_USDT(q.symbol)
            /\ q.status = "TRADING"
            /\ ~InList(q.symbol, names) } }
      um_pair_names ==
        { p.pair : p \in { q \in um_pair_infos :
            q.pair # "" /\ ends_in_USDT(q.pair) /\ ~InList(q.pair, names) } }
  IN  um_pair_names \cap pair_names

\* list(a set): the elements once each, in an order the set does not define
Orders(set) ==
  { order \in [1..Cardinality(set) -> set] :
      \A i, j \in 1..Cardinality(set) : order[i] = order[j] => i = j }

\* the lists trading_pair_names may be after get_need_trading_pair_set
get_need_trading_pair_set(names, pair_infos, um_pair_infos) ==
  { names \o order : order \in Orders(need_pair_names(names, pair_infos, um_pair_infos)) }

\* one call of get_need_trading_pair_set, which also writes the cache file
CallResolve(pair_infos, um_pair_infos) ==
  /\ \E names \in get_need_trading_pair_set(trading_pair_names, pair_infos, um_pair_infos) :
       /\ trading_pair_names' = names
       /\ cache_file' = names
  /\ call' = [op |-> "get_need_trading_pair_set", pair_infos |-> pair_infos,
              um_pair_infos |-> um_pair_infos, before |-> trading_pair_names]
  /\ UNCHANGED <<kl, max_klines_num, pair_name_to_klines_dict, source>>

\* the cache file as __init__ loads it: pair names tracked so far, each once
InitResolver ==
  /\ kl = KLines(<<>>)
  /\ max_klines_num = RankKlinesNum
  /\ trading_pair_names \in UNION { Orders(set) : set \in SUBSET Symbols }
  /\ cache_file = trading_pair_names
  /\ pair_name_to_klines_dict = <<>>
  /\ source = [symbol \in Symbols |-> <<>>]
  /\ call = NoCall

NextResolver ==
  \E pair_infos \in SpotListings, um_pair_infos \in UmListings :
    CallResolve(pair_infos, um_pair_infos)

SpecResolver == InitResolver /\ [][NextResolver]_vars

ResolveCalled == call.op = "get_need_trading_pair_set"

\* C17: once get_need_trading_pair_set has run, running it again over the same
\* two listings leaves trading_pair_names, and the list in the cache file, as the
\* first run left them.
C17_ResolveIdempotent ==
  ResolveCalled =>
    /\ cache_file = trading_pair_names
    /\ get_need_trading_pair_set(trading_pair_names, call.pair_infos, call.um_pair_infos)
         = {trading_pair_names}

\* a run that appended a name to the tracked pairs
C17_Witness ==
  /\ ResolveCalled
  /\ Len(trading_pair_names) > Len(call.before)
  /\ Len(call.before) > 0

\* C18: a run of get_need_trading_pair_set keeps every tracked name at its place,
\* appends once each exactly the names that end in USDT, are listed by the
\* derivatives exchange, are listed by the spot exchange with status TRADING and
\* were not tracked, and writes that list to the cache file; no name is ever
\* tracked twice.
C18_GrowsExactly ==
  [][ call'.op = "get_need_trading_pair_set" =>
        LET old == trading_pair_names
            new == trading_pair_names'
            qualifying ==
              { name \in PairNames :
                  /\ LastN(Spelling(name), 4) = <<"U", "S", "D", "T">>
                  /\ [pair |-> name] \in call'.um_pair_infos
                  /\ [symbol |-> name, status |-> "TRADING"] \in call'.pair_infos
                  /\ \A i \in 1..Len(old) : old[i] # name }
        IN  /\ Len(new) = Len(old) + Cardinality(qualifying)
            /\ \A i \in 1..Len(old) : new[i] = old[i]
            /\ { new[i] : i \in (Len(old) + 1)..Len(new) } = qualifying
            /\ \A i, j \in 1..Len(new) : new[i] = new[j] => i = j
            /\ cache_file' = new
    ]_vars

\* a run appended one name to a tracked one though the listings also had a
\* symbol that is not TRADING and a pair that does not end in USDT
C18_Witness ==
  /\ ResolveCalled
  /\ Len(call.before) = 1 /\ Len(trading_pair_names) = 2
  /\ \E p \in call.pair_infos : p.status = "BREAK" /\ [pair |-> p.symbol] \in call.um_pair_infos
  /\ [pair |-> "USDTA"] \in call.um_pair_infos
  /\ [symbol |-> "USDTA", status |-> "TRADING"] \in call.pair_infos

----------------------------------------------------------------------------
(* Claims about the window map and the two ranking paths (Spec) *)

\* C14: get_current_trading_klines fetches once: a pair without a window gets one
\* backfill of at most max_klines_num bars, which is stored; a pair with a window
\* gets that window back with no fetch; and no call of it, alone or within
\* get_init_buying_volume_diff_ratio_rank, replaces or drops a stored window.
C14_FetchOnce ==
  [][ /\ DOMAIN pair_name_to_klines_dict \subseteq DOMAIN pair_name_to_klines_dict'
      /\ call'.op = "get_current_trading_klines" =>
           IF call'.symbol \in DOMAIN pair_name_to_klines_dict
             THEN /\ call'.fetches = 0
                  /\ pair_name_to_klines_dict' = pair_name_to_klines_dict
                  /\ Returned(call'.out, pair_name_to_klines_dict[call'.symbol])
             ELSE /\ call'.fetches = 1
                  /\ Returned(call'.out, pair_name_to_klines_dict'[call'.symbol])
                  /\ pair_name_to_klines_dict'[call'.symbol].klines_list =
                       LastN(source[call'.symbol], max_klines_num)
      /\ call'.op \in {"get_current_trading_klines", "get_init_buying_volume_diff_ratio_rank"} =>
           \A symbol \in DOMAIN pair_name_to_klines_dict :
             pair_name_to_klines_dict'[symbol] = pair_name_to_klines_dict[symbol]
    ]_vars

\* a call returned, without a fetch, a window that a fetch would not have given
C14_Witness ==
  /\ call.op = "get_current_trading_klines"
  /\ call.fetches = 0
  /\ Returned(call.out, pair_name_to_klines_dict[call.symbol])
  /\ call.out.value.klines_list # klines(call.symbol, max_klines_num)

\* the ranking a RankMaintainer without any window would return now
ColdRank(past, recent) ==
  init_rank_loop(trading_pair_names, <<>>, <<>>, past, recent).out

\* C16: the ranking returned after incremental refreshes is the ranking computed
\* from a fresh backfill of the exchange taken at the same moment.
C16_ColdEqualsIncremental ==
  (call.op = "update_buying_volume_diff_ratio_rank" /\ call.out.raised = "none") =>
    /\ ColdRank(call.past, call.recent).raised = "none"
    /\ call.out.value = sorted_by_ratio(ColdRank(call.past, call.recent).value)

\* C19: a ranking asked with a window size above max_klines_num fails with the
\* assertion's error, issues no fetch of bars, and leaves the window map as it
\* was: no window is created and none is modified.
C19_SizeRefusedFirst ==
  [][ (/\ call'.op \in RankOps
       /\ (call'.past > max_klines_num \/ call'.recent > max_klines_num)) =>
        /\ call'.out.raised = "AssertionError"
        /\ pair_name_to_klines_dict' = pair_name_to_klines_dict
        /\ get_init_buying_volume_diff_ratio_rank(call'.past, call'.recent).fetches = 0
        /\ update_buying_volume_diff_ratio_rank(call'.past, call'.recent).fetches = 0
    ]_vars

\* an initial ranking with too large a size was refused and left the map empty
\* though the exchange holds bars of the tracked pair
C19_Witness ==
  /\ call.op = "get_init_buying_volume_diff_ratio_rank"
  /\ call.past > max_klines_num
  /\ call.out.raised = "AssertionError"
  /\ DOMAIN pair_name_to_klines_dict = {}
  /\ \A symbol \in Tracked : Len(source[symbol]) > 0

\* C21: update_klines for a pair without a window, and
\* update_buying_volume_diff_ratio_rank while a tracked pair has none, end in an
\* error; no window is created for such a pair, and the map is left as it was by
\* update_klines and by a pass that found no window at all.
C21_RefreshNeedsWindow ==
  [][ /\ (call'.op = "update_klines"
          /\ call'.symbol \notin DOMAIN pair_name_to_klines_dict) =>
           /\ call'.out.raised # "none"
           /\ pair_name_to_klines_dict' = pair_name_to_klines_dict
      /\ (call'.op = "update_buying_volume_diff_ratio_rank"
          /\ \E symbol \in Tracked : symbol \notin DOMAIN pair_name_to_klines_dict) =>
           /\ call'.out.raised # "none"
           /\ DOMAIN pair_name_to_klines_dict' = DOMAIN pair_name_to_klines_dict
           /\ DOMAIN pair_name_to_klines_dict = {} =>
                pair_name_to_klines_dict' = pair_name_to_klines_dict
    ]_vars

\* update_klines failed on the missing window of a pair the exchange has bars of
C21_Witness ==
  /\ call.op = "update_klines"
  /\ call.out.raised = "KeyError"
  /\ call.symbol \notin DOMAIN pair_name_to_klines_dict
  /\ Len(source[call.symbol]) > 0

\* C22: the klines_num of a KLines is the number of bars its klines_list holds,
\* when it is built and after every update_latest_klines, accepted or not.
C22_KlinesNumIsLength == kl.klines_num = Len(kl.klines_list)

\* an update that moved a window of several bars on to a new bar
C22_Witness ==
  /\ call.op = "update_latest_klines"
  /\ call.out.raised = "none" /\ call.out.value = TRUE
  /\ Last(call.before.klines_list).start_time < call.kline.start_time
  /\ kl.klines_list # call.before.klines_list
  /\ kl.klines_num >= 2
  /\ kl.klines_num = Len(kl.klines_list)

====
